---- MODULE Spec2Model ----
(***************************************************************************)
(* Model of nx_spatial/readwrite/nx_shp.py: read_shp builds a networkx     *)
(* DiGraph from the point and line-string features of an OGR data source,  *)
(* write_shp writes a DiGraph to the two layers "nodes" and "edges".       *)
(* The DiGraph is the networkx 1.x container the module calls (add_node    *)
(* and add_edge take the attribute dict positionally and update an         *)
(* existing dict); Python values are tagged with their type so that        *)
(* dict-only methods (has_key) can fail on the others.                     *)
(***************************************************************************)
EXTENDS Integers, Sequences, FiniteSets, TLC

VARIABLES ogr,       \* TRUE iff "from osgeo import ogr" succeeds
          pc,        \* position of the calling program
          path,      \* argument of the running / last read_shp call
          shp,       \* data source opened by read_shp: sequence of layers
          lyrindex,  \* read_shp: layers entered so far
          findex,    \* addlyr: features of the current layer processed
          net,       \* read_shp: the DiGraph under construction
          G,         \* the graph the caller holds and hands to write_shp
          plain,     \* G was read from points and two-vertex lines only
          todo,      \* write_shp: keys the running loop has not visited
          key,       \* write_shp: loop variable n / e, with its layer
          g,         \* write_shp: geometry returned by netgeometry
          outds,     \* layers of the data source write_shp created
          err,       \* exception that ended the last call ("None" if none)
          fsops      \* filesystem accesses made through OGR, in order

vars == <<ogr, pc, path, shp, lyrindex, findex, net, G, plain, todo, key, g,
          outds, err, fsops>>

(* ------------------------------ bounds --------------------------------- *)

\* features one input data source may hold, over all its layers
MaxFeatures == 2

\* vertices of the longest input line string
MaxVerts == 3

(* --------------------------- OGR constants ----------------------------- *)

wkbPoint == 1
wkbLineString == 2
\* OGR's code of polygons, here for every type that is neither of the two
wkbPolygon == wkbLineString + 1

(* --------------------------- Python values ----------------------------- *)

None == [t |-> "NoneType"]
PyStr(s) == [t |-> "str", v |-> s]
PyInt(i) == [t |-> "int", v |-> i]
PyDict(m) == [t |-> "dict", v |-> m]

\* {} : the mapping with no key
EmptyDict == [k \in {} |-> None]

\* d.update(e): keys of e take e's value, the other keys of d stay
DictUpdate(d, e) == [k \in (DOMAIN d) \cup (DOMAIN e) |->
                        IF k \in DOMAIN e THEN e[k] ELSE d[k]]

\* dict(zip(fields, flddata))
DictZip(fields, flddata) ==
    [k \in {fields[i] : i \in DOMAIN fields} |->
        flddata[CHOOSE i \in DOMAIN fields :
                   /\ fields[i] = k
                   /\ \A j \in DOMAIN fields : fields[j] = k => j <= i]]

\* d[k] = x on a dict
DictSet(d, k, x) == [j \in (DOMAIN d) \cup {k} |-> IF j = k THEN x ELSE d[j]]

(* ----------------------------- geometries ------------------------------ *)

Coords == {<<0, 0>>, <<1, 1>>, <<2, 2>>}

Point(c) == [type |-> wkbPoint, pts |-> <<c>>]
LineString(ps) == [type |-> wkbLineString, pts |-> ps]
Polygon(ps) == [type |-> wkbPolygon, pts |-> ps]

\* the vertices of a line from u to v with k vertices in between: the odd
\* ones at a coordinate that is no end of the line, the even ones back at u
Through(u, v, k) ==
    [i \in 1..(k + 2) |->
        IF i = 1 THEN u
        ELSE IF i = k + 2 THEN v
        ELSE IF i % 2 = 0 THEN CHOOSE c \in Coords : c # u /\ c # v
        ELSE u]

VertexLists == {Through(u, v, k) : u \in Coords, v \in Coords,
                                   k \in 0..(MaxVerts - 2)}

Ring == <<(<<0, 0>>), (<<1, 1>>), (<<2, 2>>), (<<0, 0>>)>>

\* the geometries an input feature may carry
Geometries == {Point(c) : c \in Coords}
              \cup {LineString(ps) : ps \in VertexLists}
              \cup {Polygon(Ring)}

GetGeometryType(geom) == geom.type
GetPointCount(geom) == Len(geom.pts)
\* GetPoint_2D is 0-based
GetPoint_2D(geom, i) == geom.pts[i + 1]

RECURSIVE Flatten(_)
Flatten(ps) == IF ps = <<>> THEN <<>>
               ELSE <<ps[1][1], ps[1][2]>> \o Flatten(Tail(ps))

RECURSIVE Unflatten(_)
Unflatten(xs) == IF Len(xs) < 2 THEN <<>>
                 ELSE <<(<<xs[1], xs[2]>>)>> \o Unflatten(Tail(Tail(xs)))

\* well-known binary: byte order, type code, [point count,] coordinates
ExportToWkb(geom) ==
    [t |-> "wkb",
     v |-> IF geom.type = wkbPoint
           THEN <<1, geom.type>> \o Flatten(geom.pts)
           ELSE <<1, geom.type, Len(geom.pts)>> \o Flatten(geom.pts)]

CreateGeometryFromWkb(b) ==
    IF b.v[2] = wkbPoint
    THEN [type |-> b.v[2], pts |-> Unflatten(SubSeq(b.v, 3, Len(b.v)))]
    ELSE [type |-> b.v[2],
          pts |-> Unflatten(SubSeq(b.v, 4, 3 + 2 * b.v[3]))]

WktName(type) == IF type = wkbPoint THEN "POINT"
                 ELSE IF type = wkbLineString THEN "LINESTRING"
                 ELSE "POLYGON"

\* well-known text: the type name followed by the coordinate list
ExportToWkt(geom) == [t |-> "wkt", v |-> <<WktName(geom.type), geom.pts>>]

CreateGeometryFromWkt(s) ==
    [type |-> IF s.v[1] = "POINT" THEN wkbPoint
              ELSE IF s.v[1] = "LINESTRING" THEN wkbLineString
              ELSE wkbPolygon,
     pts |-> s.v[2]]

ExportToJson(geom) ==
    [t |-> "json", v |-> [type |-> WktName(geom.type), coordinates |-> geom.pts]]

(* ------------------------------ DiGraph -------------------------------- *)

\* nx.DiGraph(): node maps each node to its dict, edge each (u, v) to its dict
DiGraph == [node |-> [n \in {} |-> EmptyDict], edge |-> [e \in {} |-> EmptyDict]]

Nodes(graph) == DOMAIN graph.node
Edges(graph) == DOMAIN graph.edge

\* add_node with the bug of replacing the dict of an existing node
add_node_Replace(graph, n, attr_dict) ==
    [graph EXCEPT !.node =
        [m \in Nodes(graph) \cup {n} |->
            IF m # n THEN graph.node[m] ELSE attr_dict]]

\* DiGraph.add_node(n, attr_dict): a new node takes attr_dict, an existing
\* node's dict is updated with it
add_node(graph, n, attr_dict) ==
    [graph EXCEPT !.node =
        [m \in Nodes(graph) \cup {n} |->
            IF m # n THEN graph.node[m]
            ELSE IF n \in Nodes(graph) THEN DictUpdate(graph.node[n], attr_dict)
            ELSE attr_dict]]

\* add_edge with the bug of giving both end nodes a fresh empty dict
add_edge_ResetEnds(graph, u, v, attr_dict) ==
    [node |-> [m \in Nodes(graph) \cup {u, v} |->
                  IF m \in {u, v} THEN EmptyDict ELSE graph.node[m]],
     edge |-> [e \in Edges(graph) \cup {<<u, v>>} |->
                  IF e # <<u, v>> THEN graph.edge[e]
                  ELSE IF e \in Edges(graph)
                       THEN DictUpdate(graph.edge[e], attr_dict)
                       ELSE DictUpdate(EmptyDict, attr_dict)]]

\* DiGraph.add_edge(u, v, attr_dict): missing end nodes are created with an
\* empty dict, the edge's dict (empty if the edge is new) is updated
add_edge(graph, u, v, attr_dict) ==
    [node |-> [m \in Nodes(graph) \cup {u, v} |->
                  IF m \in Nodes(graph) THEN graph.node[m] ELSE EmptyDict],
     edge |-> [e \in Edges(graph) \cup {<<u, v>>} |->
                  IF e # <<u, v>> THEN graph.edge[e]
                  ELSE IF e \in Edges(graph)
                       THEN DictUpdate(graph.edge[e], attr_dict)
                       ELSE DictUpdate(EmptyDict, attr_dict)]]

(* ------------------------------ read_shp ------------------------------- *)

\* the layers an input directory may hold: name and field schema
LayerDefs == {[name |-> "A", fields |-> <<"f">>],
              [name |-> "B", fields |-> <<>>]}

FieldValues == {PyInt(1), PyInt(2)}

\* a feature of a layer: one value per schema field, and a geometry
FeaturesOf(fields) == [flds : [DOMAIN fields -> FieldValues], geom : Geometries]

\* [f.GetField(f.GetFieldIndex(x)) for x in flds]
getfieldinfo(f, flds) == [i \in DOMAIN flds |-> f.flds[i]]

FeatureCount(ds) ==
    LET RECURSIVE Sum(_)
        Sum(i) == IF i = 0 THEN 0 ELSE Len(ds[i].feats) + Sum(i - 1)
    IN Sum(Len(ds))

\* the mapping addlyr builds for feature f of layer lyr (lines 68-71, 75-77)
Attributes(lyr, f) ==
    LET base == DictSet(DictZip(lyr.fields, getfieldinfo(f, lyr.fields)),
                        "ShpName", PyStr(lyr.name))
    IN IF GetGeometryType(f.geom) = wkbLineString
       THEN DictSet(DictSet(DictSet(base, "Wkb", ExportToWkb(f.geom)),
                            "Wkt", ExportToWkt(f.geom)),
                    "Json", ExportToJson(f.geom))
       ELSE base

\* addlyr with the bug of ending the edge at the second vertex (last = 1)
addlyr_FirstSegment(graph, lyr, f) ==
    LET geom == f.geom
        last == 1
    IN IF GetGeometryType(geom) = wkbPoint
       THEN add_node(graph, GetPoint_2D(geom, 0), Attributes(lyr, f))
       ELSE IF GetGeometryType(geom) = wkbLineString
       THEN add_edge(graph, GetPoint_2D(geom, 0), GetPoint_2D(geom, last),
                     Attributes(lyr, f))
       ELSE graph

\* addlyr with the bug of taking every geometry that is no line for a point
addlyr_ElseNode(graph, lyr, f) ==
    LET geom == f.geom
        last == GetPointCount(geom) - 1
    IN IF GetGeometryType(geom) = wkbLineString
       THEN add_edge(graph, GetPoint_2D(geom, 0), GetPoint_2D(geom, last),
                     Attributes(lyr, f))
       ELSE add_node(graph, GetPoint_2D(geom, 0), Attributes(lyr, f))

\* one iteration of addlyr's loop on feature f of layer lyr
addlyr(graph, lyr, f) ==
    LET geom == f.geom
        last == GetPointCount(geom) - 1
    IN IF GetGeometryType(geom) = wkbPoint
       THEN add_node(graph, GetPoint_2D(geom, 0), Attributes(lyr, f))
       ELSE IF GetGeometryType(geom) = wkbLineString
       THEN add_edge(graph, GetPoint_2D(geom, 0), GetPoint_2D(geom, last),
                     Attributes(lyr, f))
       ELSE graph

\* the layer addlyr is iterating, and the features it has not reached yet;
\* the content of the input directory is revealed as read_shp reaches it
Layer == shp[lyrindex]

NextFeatures ==
    IF findex < Len(Layer.feats) THEN {Layer.feats[findex + 1]}
    ELSE IF path = "indir" /\ FeatureCount(shp) < MaxFeatures
         THEN FeaturesOf(Layer.fields)
         ELSE {}

NextLayers ==
    IF lyrindex < Len(shp) THEN {shp[lyrindex + 1]}
    ELSE IF path = "indir"
         THEN {[name |-> d.name, fields |-> d.fields, feats |-> <<>>] :
                 d \in {d \in LayerDefs :
                          \A i \in DOMAIN shp : shp[i].name # d.name}}
         ELSE {}

\* the orders in which a directory's layers may be listed
Orders(ds) == {p \in [DOMAIN ds -> DOMAIN ds] :
                 \A i, j \in DOMAIN ds : p[i] = p[j] => i = j}

Reorder(ds, p) == [i \in DOMAIN ds |-> ds[p[i]]]

ReadImportError == "ImportError: read_shp requires OGR: http://www.gdal.org/"
WriteImportError == "ImportError: write_shp requires OGR: http://www.gdal.org/"

\* lines 52-55: the import fails, nothing else runs
ReadShpImportError ==
    /\ pc = "idle"
    /\ ~ogr
    /\ pc' = "failed"
    /\ err' = ReadImportError
    /\ UNCHANGED <<ogr, path, shp, lyrindex, findex, net, G, plain, todo, key,
                   g, outds, fsops>>

\* lines 57, 80, 87: a path that is not a str is never opened
ReadShpNotStr ==
    /\ pc = "idle"
    /\ ogr
    /\ path' = "notstr"
    /\ net' = DiGraph
    /\ G' = DiGraph
    /\ plain' = TRUE
    /\ pc' = "have_G"
    /\ UNCHANGED <<ogr, shp, lyrindex, findex, todo, key, g, outds, err, fsops>>

\* ReadShpOpen with the bug of opening the path before the import is tried
ReadShpOpen_BeforeImport ==
    /\ pc = "idle"
    /\ path' = "indir"
    /\ fsops' = Append(fsops, <<"Open", "indir">>)
    /\ net' = DiGraph
    /\ G' = DiGraph
    /\ shp' = <<>>
    /\ lyrindex' = 0
    /\ findex' = 0
    /\ \E opened \in BOOLEAN :
          IF opened /\ ogr
          THEN pc' = "layers" /\ err' = err
          ELSE pc' = "failed"
               /\ err' = IF ogr THEN "AttributeError" ELSE ReadImportError
    /\ UNCHANGED <<ogr, plain, todo, key, g, outds>>

\* lines 57, 80-82 on the input directory: ogr.Open(path); a path OGR cannot
\* open gives None and shp.GetLayerCount() raises.  The caller binds G to
\* the result and gives up the graph it held.
ReadShpOpen ==
    /\ pc = "idle"
    /\ ogr
    /\ path' = "indir"
    /\ fsops' = Append(fsops, <<"Open", "indir">>)
    /\ net' = DiGraph
    /\ G' = DiGraph
    /\ shp' = <<>>
    /\ lyrindex' = 0
    /\ findex' = 0
    /\ \E opened \in BOOLEAN :
          IF opened
          THEN pc' = "layers" /\ err' = err
          ELSE pc' = "failed" /\ err' = "AttributeError"
    /\ UNCHANGED <<ogr, plain, todo, key, g, outds>>

\* lines 57, 80-82 on the directory write_shp has written: its layers come
\* in the order the directory lists them
ReadBackOpen ==
    /\ pc = "written"
    /\ ogr
    /\ path' = "outdir"
    /\ fsops' = Append(fsops, <<"Open", "outdir">>)
    /\ net' = DiGraph
    /\ \E p \in Orders(outds) : shp' = Reorder(outds, p)
    /\ lyrindex' = 0
    /\ findex' = 0
    /\ pc' = "layers"
    /\ UNCHANGED <<ogr, G, plain, todo, key, g, outds, err>>

\* lines 83-86: enter the next layer and read its schema
ReadShpLayer ==
    /\ pc = "layers"
    /\ \E lyr \in NextLayers :
          shp' = IF lyrindex < Len(shp) THEN shp ELSE Append(shp, lyr)
    /\ lyrindex' = lyrindex + 1
    /\ findex' = 0
    /\ pc' = "addlyr"
    /\ UNCHANGED <<ogr, path, net, G, plain, todo, key, g, outds, err, fsops>>

\* lines 66-79: one feature of the current layer
AddLyrFeature ==
    /\ pc = "addlyr"
    /\ \E f \in NextFeatures :
          /\ shp' = IF findex < Len(Layer.feats) THEN shp
                    ELSE [shp EXCEPT ![lyrindex].feats = Append(@, f)]
          /\ net' = addlyr(net, Layer, f)
    /\ findex' = findex + 1
    /\ UNCHANGED <<ogr, pc, path, lyrindex, G, plain, todo, key, g, outds, err,
                   fsops>>

\* line 66: the layer has no further feature (a layer of the input directory
\* holds at least one)
AddLyrDone ==
    /\ pc = "addlyr"
    /\ findex = Len(Layer.feats)
    /\ path = "indir" => findex > 0
    /\ pc' = "layers"
    /\ UNCHANGED <<ogr, path, shp, lyrindex, findex, net, G, plain, todo, key,
                   g, outds, err, fsops>>

\* features read_shp turns into a node or an edge without dropping a vertex
PlainFeature(f) ==
    \/ GetGeometryType(f.geom) = wkbPoint
    \/ GetGeometryType(f.geom) = wkbLineString /\ GetPointCount(f.geom) = 2

PlainSource(ds) ==
    \A i \in DOMAIN ds : \A j \in DOMAIN ds[i].feats : PlainFeature(ds[i].feats[j])

\* lines 83, 87: no further layer, return net; the caller keeps the graph
\* read from the input directory as G
ReadShpReturn ==
    /\ pc = "layers"
    /\ lyrindex = Len(shp)
    /\ IF path = "indir"
       THEN /\ G' = net
            /\ plain' = PlainSource(shp)
            /\ pc' = "have_G"
       ELSE /\ UNCHANGED <<G, plain>>
            /\ pc' = "read_back"
    /\ UNCHANGED <<ogr, path, shp, lyrindex, findex, net, todo, key, g, outds,
                   err, fsops>>

(* ------------------------------ write_shp ------------------------------ *)

NoKey == <<"none", <<>>>>
NoGeometry == [exc |-> "None", branch |-> "none", geom |-> None, data |-> None]

\* type(x) for an x whose type is named tn
TypeOf(tn) == [t |-> "type", v |-> tn]

\* netgeometry with the bug of trying Wkt before Wkb
netgeometry_WktFirst(k, key0type, data) ==
    IF data.t # "dict"
    THEN [exc |-> "AttributeError", branch |-> "none", geom |-> None, data |-> data]
    ELSE IF "Wkt" \in DOMAIN data.v
    THEN [exc |-> "None", branch |-> "Wkt",
          geom |-> CreateGeometryFromWkt(data.v["Wkt"]), data |-> data]
    ELSE IF "Wkb" \in DOMAIN data.v
    THEN [exc |-> "None", branch |-> "Wkb",
          geom |-> CreateGeometryFromWkb(data.v["Wkb"]), data |-> data]
    ELSE IF key0type = "float"
    THEN [exc |-> "None", branch |-> "point", geom |-> Point(k), data |-> data]
    ELSE [exc |-> "TypeError", branch |-> "point", geom |-> None, data |-> data]

\* netgeometry with the bug of taking the encoding out of the dict
\* (data.pop('Wkb') for data['Wkb'])
netgeometry_PopWkb(k, key0type, data) ==
    IF data.t # "dict"
    THEN [exc |-> "AttributeError", branch |-> "none", geom |-> None, data |-> data]
    ELSE IF "Wkb" \in DOMAIN data.v
    THEN [exc |-> "None", branch |-> "Wkb",
          geom |-> CreateGeometryFromWkb(data.v["Wkb"]),
          data |-> PyDict([j \in DOMAIN data.v \ {"Wkb"} |-> data.v[j]])]
    ELSE IF "Wkt" \in DOMAIN data.v
    THEN [exc |-> "None", branch |-> "Wkt",
          geom |-> CreateGeometryFromWkt(data.v["Wkt"]), data |-> data]
    ELSE IF key0type = "float"
    THEN [exc |-> "None", branch |-> "point", geom |-> Point(k), data |-> data]
    ELSE [exc |-> "TypeError", branch |-> "point", geom |-> None, data |-> data]

\* lines 117-130; key0type names the Python type of key[0]: "float" for a
\* node key (x, y), "tuple" for an edge key ((x, y), (x, y)).  has_key
\* exists on dicts only; SetPoint takes numbers only.  data is the caller's
\* object itself, so the result also carries what netgeometry leaves of it.
netgeometry(k, key0type, data) ==
    IF data.t # "dict"
    THEN [exc |-> "AttributeError", branch |-> "none", geom |-> None, data |-> data]
    ELSE IF "Wkb" \in DOMAIN data.v
    THEN [exc |-> "None", branch |-> "Wkb",
          geom |-> CreateGeometryFromWkb(data.v["Wkb"]), data |-> data]
    ELSE IF "Wkt" \in DOMAIN data.v
    THEN [exc |-> "None", branch |-> "Wkt",
          geom |-> CreateGeometryFromWkt(data.v["Wkt"]), data |-> data]
    ELSE IF TypeOf(key0type) = PyStr("tuple")
    THEN [exc |-> "None", branch |-> "line",
          geom |-> LineString(<<k[1], k[2]>>), data |-> data]
    ELSE IF key0type = "float"
    THEN [exc |-> "None", branch |-> "point", geom |-> Point(k), data |-> data]
    ELSE [exc |-> "TypeError", branch |-> "point", geom |-> None, data |-> data]

\* lines 132-136: a feature with geometry g and no field value
create_feature(ds, i, geom) ==
    [ds EXCEPT ![i].feats = Append(@, [flds |-> <<>>, geom |-> geom])]

\* G.node[n].values() or [{}], then [0]: a value of the node's dict (dicts
\* are unordered), the empty dict when it has none
NodeData(graph, n) ==
    IF DOMAIN graph.node[n] = {} THEN {PyDict(EmptyDict)}
    ELSE {graph.node[n][k] : k \in DOMAIN graph.node[n]}

\* G.get_edge_data(*e): the edge's own dict, not a copy
EdgeData(graph, e) == PyDict(graph.edge[e])

\* lines 112-115
WriteShpImportError ==
    /\ pc = "idle"
    /\ ~ogr
    /\ pc' = "failed"
    /\ err' = WriteImportError
    /\ UNCHANGED <<ogr, path, shp, lyrindex, findex, net, G, plain, todo, key,
                   g, outds, fsops>>

\* lines 138-140: create the data source and its "nodes" layer; a data
\* source OGR cannot create gives None and shpdir.CreateLayer raises
WriteShpCreate(from) ==
    /\ pc = from
    /\ ogr
    /\ fsops' = Append(fsops, <<"CreateDataSource", "outdir">>)
    /\ \E created \in BOOLEAN :
          IF created
          THEN /\ outds' = <<[name |-> "nodes", fields |-> <<>>, feats |-> <<>>]>>
               /\ todo' = Nodes(G)
               /\ pc' = "write_nodes"
               /\ err' = err
          ELSE /\ pc' = "failed"
               /\ err' = "AttributeError"
               /\ UNCHANGED <<outds, todo>>
    /\ UNCHANGED <<ogr, path, shp, lyrindex, findex, net, G, plain, key, g>>

\* lines 141-144: one node
WriteNode ==
    /\ pc = "write_nodes"
    /\ \E n \in todo : \E data0 \in NodeData(G, n) :
          LET r == netgeometry(n, "float", data0)
          IN /\ key' = <<"nodes", n>>
             /\ g' = r
             /\ todo' = todo \ {n}
             /\ IF r.exc = "None"
                THEN /\ outds' = create_feature(outds, 1, r.geom)
                     /\ UNCHANGED <<pc, err>>
                ELSE /\ pc' = "failed"
                     /\ err' = r.exc
                     /\ UNCHANGED outds
    /\ UNCHANGED <<ogr, path, shp, lyrindex, findex, net, G, plain, fsops>>

\* line 145: the nodes are done, create the "edges" layer
WriteNodesDone ==
    /\ pc = "write_nodes"
    /\ todo = {}
    /\ outds' = Append(outds, [name |-> "edges", fields |-> <<>>, feats |-> <<>>])
    /\ todo' = Edges(G)
    /\ pc' = "write_edges"
    /\ UNCHANGED <<ogr, path, shp, lyrindex, findex, net, G, plain, key, g, err,
                   fsops>>

\* lines 146-149: one edge
WriteEdge ==
    /\ pc = "write_edges"
    /\ \E e \in todo :
          LET r == netgeometry(e, "tuple", EdgeData(G, e))
          IN /\ key' = <<"edges", e>>
             /\ g' = r
             /\ todo' = todo \ {e}
             /\ IF r.exc = "None"
                THEN /\ outds' = create_feature(outds, 2, r.geom)
                     /\ UNCHANGED <<pc, err>>
                ELSE /\ pc' = "failed"
                     /\ err' = r.exc
                     /\ UNCHANGED outds
             /\ G' = [G EXCEPT !.edge[e] = r.data.v]
    /\ UNCHANGED <<ogr, path, shp, lyrindex, findex, net, plain, fsops>>

\* line 151: both loops are done, the layers are released, None is returned
WriteShpReturn ==
    /\ pc = "write_edges"
    /\ todo = {}
    /\ pc' = "written"
    /\ UNCHANGED <<ogr, path, shp, lyrindex, findex, net, G, plain, todo, key,
                   g, outds, err, fsops>>

(* ------------------------- graphs built by hand ------------------------ *)

\* edges of a graph the caller builds without read_shp
MaxGraphEdges == 1

NodeAttrs(n) == {EmptyDict,
                 DictSet(EmptyDict, "name", PyStr("x")),
                 DictSet(EmptyDict, "Wkt", ExportToWkt(Point(n)))}

Detour(u, v) == Through(u, v, 1)

EdgeAttrs(e) ==
    {EmptyDict,
     DictSet(EmptyDict, "weight", PyInt(1)),
     DictSet(EmptyDict, "Wkt", ExportToWkt(LineString(Detour(e[1], e[2])))),
     DictSet(EmptyDict, "Wkb", ExportToWkb(LineString(Detour(e[1], e[2])))),
     DictSet(DictSet(EmptyDict, "Wkb", ExportToWkb(LineString(Detour(e[1], e[2])))),
             "Wkt", ExportToWkt(LineString(<<e[1], e[2]>>)))}

CallerGraphs ==
    UNION {UNION {[node : {nf \in [N -> UNION {NodeAttrs(n) : n \in N}] :
                             \A n \in N : nf[n] \in NodeAttrs(n)},
                   edge : {ef \in [E -> UNION {EdgeAttrs(e) : e \in E}] :
                             \A e \in E : ef[e] \in EdgeAttrs(e)}] :
                    E \in {E \in SUBSET (N \X N) : Cardinality(E) <= MaxGraphEdges}} :
             N \in {N \in SUBSET Coords : Cardinality(N) <= 2}}

(* ---------------------------- specification ---------------------------- *)

Init ==
    /\ ogr \in BOOLEAN
    /\ pc = "idle"
    /\ path = "none"
    /\ shp = <<>>
    /\ lyrindex = 0
    /\ findex = 0
    /\ net = DiGraph
    /\ G \in CallerGraphs
    /\ plain = FALSE
    /\ todo = {}
    /\ key = NoKey
    /\ g = NoGeometry
    /\ outds = <<>>
    /\ err = "None"
    /\ fsops = <<>>

\* write_shp on a graph the caller built
WriteShp == WriteShpCreate("idle")

\* write_shp on the graph read_shp returned
WriteShpResult == WriteShpCreate("have_G")

ReadSteps ==
    \/ ReadShpLayer
    \/ AddLyrFeature
    \/ AddLyrDone
    \/ ReadShpReturn

WriteSteps ==
    \/ WriteNode
    \/ WriteNodesDone
    \/ WriteEdge
    \/ WriteShpReturn

\* one call: read_shp on the input directory, or write_shp on a graph
NextCall ==
    \/ ReadShpImportError
    \/ ReadShpNotStr
    \/ ReadShpOpen
    \/ ReadSteps
    \/ WriteShpImportError
    \/ WriteShp
    \/ WriteSteps

SpecCall == Init /\ [][NextCall]_vars

\* also the round trip: read_shp, write_shp on its result, read_shp on that
Next ==
    \/ NextCall
    \/ WriteShpResult
    \/ ReadBackOpen

Spec == Init /\ [][Next]_vars

TypeOK ==
    /\ ogr \in BOOLEAN
    /\ pc \in {"idle", "layers", "addlyr", "have_G", "write_nodes",
               "write_edges", "written", "read_back", "failed"}
    /\ err \in {"None", ReadImportError, WriteImportError, "AttributeError",
               "TypeError"}

(* ------------------- what read_shp has processed ----------------------- *)

\* the features of the data source ds in the order read_shp processes them,
\* each with its layer and the mapping addlyr builds for it
RECURSIVE Processed(_)
Processed(ds) ==
    IF ds = <<>> THEN <<>>
    ELSE LET lyr == ds[Len(ds)]
         IN Processed(SubSeq(ds, 1, Len(ds) - 1))
            \o [j \in 1..Len(lyr.feats) |->
                  [lyr |-> lyr, f |-> lyr.feats[j],
                   a |-> Attributes(lyr, lyr.feats[j])]]

IsPoint(x) == x.f.geom.type = wkbPoint
IsLine(x) == x.f.geom.type = wkbLineString
Supported(x) == IsPoint(x) \/ IsLine(x)
FirstVertex(x) == x.f.geom.pts[1]
LastVertex(x) == x.f.geom.pts[Len(x.f.geom.pts)]
EndPair(x) == <<FirstVertex(x), LastVertex(x)>>

\* positions in xs of the point features at n, of the line features from
\* e[1] to e[2]
PointsAt(xs, n) == {i \in DOMAIN xs : IsPoint(xs[i]) /\ FirstVertex(xs[i]) = n}
LinesAt(xs, e) == {i \in DOMAIN xs : IsLine(xs[i]) /\ EndPair(xs[i]) = e}

PointCoords(xs) == {FirstVertex(xs[i]) : i \in {i \in DOMAIN xs : IsPoint(xs[i])}}
LinePairs(xs) == {EndPair(xs[i]) : i \in {i \in DOMAIN xs : IsLine(xs[i])}}
LineEnds(xs) == UNION {{e[1], e[2]} : e \in LinePairs(xs)}

\* read_shp has returned the graph of the input directory; every sequence of
\* features within the bounds is the whole input of such a return
ReadReturned == path = "indir" /\ pc = "have_G"

\* the graph the features xs give when read one after the other
RECURSIVE ReadAll(_)
ReadAll(xs) ==
    IF xs = <<>> THEN DiGraph
    ELSE addlyr(ReadAll(SubSeq(xs, 1, Len(xs) - 1)),
                xs[Len(xs)].lyr, xs[Len(xs)].f)

\* the last of the positions I
Latest(I) == CHOOSE i \in I : \A j \in I : j <= i

\* C3: every line-string feature contributes exactly the edge from its first
\* to its last vertex - the edge set is the set of (first, last) pairs of the
\* line features read - and its other vertices become no node: every node is
\* a point feature's coordinate or the first or last vertex of a line.
C3_EdgeFirstToLast ==
    ReadReturned =>
        LET done == Processed(shp)
        IN /\ Edges(net) = LinePairs(done)
           /\ Nodes(net) \subseteq PointCoords(done) \cup LineEnds(done)

\* a line (0,0), (1,1), (2,2) alone was read: one edge, two nodes
C3_Witness ==
    /\ ReadReturned
    /\ Len(Processed(shp)) = 1
    /\ Processed(shp)[1].f.geom = LineString(<<(<<0, 0>>), (<<1, 1>>), (<<2, 2>>)>>)
    /\ Edges(net) = {<<(<<0, 0>>), (<<2, 2>>)>>}
    /\ Nodes(net) = {<<0, 0>>, <<2, 2>>}

\* C4 as stated: each node a point feature addressed carries exactly the
\* mapping of the last point feature at its coordinate, each edge exactly the
\* mapping of the last line feature with its (first, last) pair.
C4_FullReplacement ==
    ReadReturned =>
        LET done == Processed(shp)
        IN /\ \A n \in PointCoords(done) :
                 net.node[n] = done[Latest(PointsAt(done, n))].a
           /\ \A e \in Edges(net) :
                 net.edge[e] = done[Latest(LinesAt(done, e))].a

\* the mapping that the features of xs at the positions I leave when each key
\* keeps the value of the last feature that carries it
LastPerKey(xs, I) ==
    [k \in UNION {DOMAIN xs[i].a : i \in I} |->
        xs[Latest({i \in I : k \in DOMAIN xs[i].a})].a[k]]

\* C4 amended: last write wins key by key.  The mapping of a node that point
\* features addressed holds every key some point feature at its coordinate
\* carried, with the value of the last such feature that carried the key; the
\* same for an edge and the line features with its (first, last) pair.  A key
\* only an earlier feature carried survives.
C4_LastWritePerKey ==
    ReadReturned =>
        LET done == Processed(shp)
        IN /\ \A n \in PointCoords(done) :
                 net.node[n] = LastPerKey(done, PointsAt(done, n))
           /\ \A e \in Edges(net) :
                 net.edge[e] = LastPerKey(done, LinesAt(done, e))

\* two point features at one coordinate, the first from layer A (field f),
\* the second from layer B (no field): the node keeps f
C4_Witness ==
    /\ ReadReturned
    /\ LET done == Processed(shp)
       IN /\ Len(done) = 2
          /\ IsPoint(done[1]) /\ IsPoint(done[2])
          /\ FirstVertex(done[1]) = FirstVertex(done[2])
          /\ done[1].lyr.name = "A" /\ done[2].lyr.name = "B"
          /\ DOMAIN net.node[FirstVertex(done[1])] = {"ShpName", "f"}
          /\ net.node[FirstVertex(done[1])]["ShpName"] = PyStr("B")

\* C7: a feature that is neither a point nor a line string adds and changes
\* nothing and raises nothing, and the features after it are still read: the
\* graph returned is the one the same input gives without such features.
C7_UnsupportedSkipped ==
    /\ ReadReturned =>
          LET done == Processed(shp)
          IN (\E i \in DOMAIN done : ~Supported(done[i])) =>
                net = ReadAll(SelectSeq(done, Supported))
    /\ (path = "indir" /\ pc \in {"layers", "addlyr", "have_G"}) => err = "None"

\* a polygon was read, and a point or line after it
C7_Witness ==
    /\ ReadReturned
    /\ LET done == Processed(shp)
       IN /\ Len(done) = 2
          /\ done[1].f.geom.type = wkbPolygon
          /\ Supported(done[2])
          /\ Nodes(net) # {}

\* C10: the nodes are the point features' coordinates and the first and last
\* vertices of the line features; a node of line features only has an empty
\* mapping; a node that is also a point feature's coordinate has the mapping
\* the point features alone give, wherever the line features come in the
\* order.
C10_NodeSet ==
    ReadReturned =>
        LET done == Processed(shp)
            points == ReadAll(SelectSeq(done, IsPoint))
        IN /\ Nodes(net) = PointCoords(done) \cup LineEnds(done)
           /\ \A n \in Nodes(net) :
                 net.node[n] = IF n \in PointCoords(done) THEN points.node[n]
                               ELSE EmptyDict

\* a line was read and then a point feature at one of its ends: the node has
\* the point feature's mapping, the other end an empty one
C10_Witness ==
    /\ ReadReturned
    /\ LET done == Processed(shp)
       IN /\ Len(done) = 2
          /\ IsLine(done[1]) /\ IsPoint(done[2])
          /\ FirstVertex(done[2]) = FirstVertex(done[1])
          /\ LastVertex(done[1]) # FirstVertex(done[1])
          /\ net.node[FirstVertex(done[2])] = done[2].a
          /\ net.node[LastVertex(done[1])] = EmptyDict

(* ----------------------- what write_shp has written -------------------- *)

HasStoredGeometry(d) == "Wkb" \in DOMAIN d \/ "Wkt" \in DOMAIN d

\* the geometry of the feature create_feature added last to layer i
LastWritten(i) == outds[i].feats[Len(outds[i].feats)].geom

\* C2: without the geospatial library a call of read_shp or of write_shp ends
\* with the import error of that function, and nothing was opened, created,
\* read or written before.
C2_ImportErrorFirst ==
    ~ogr =>
        /\ pc \in {"idle", "failed"}
        /\ pc = "failed" => err \in {ReadImportError, WriteImportError}
        /\ fsops = <<>>
        /\ outds = <<>>
        /\ shp = <<>>
        /\ net = DiGraph

\* write_shp was called on a graph with nodes and the library is missing
C2_Witness ==
    /\ ~ogr
    /\ pc = "failed"
    /\ err = WriteImportError
    /\ Nodes(G) # {}

\* C5 as stated: an edge whose mapping has neither Wkb nor Wkt is written as
\* the line string of its two end coordinates, by the line branch, and
\* write_shp does not fail on it.
C5_GeometryFallback ==
    (key[1] = "edges" /\ ~HasStoredGeometry(G.edge[key[2]])) =>
        /\ g.exc = "None"
        /\ g.branch = "line"
        /\ pc # "failed"
        /\ LastWritten(2) = LineString(<<key[2][1], key[2][2]>>)

\* C6: an edge with a Wkb entry is written with the geometry that Wkb
\* encodes, an edge with a Wkt entry and no Wkb entry with the geometry that
\* Wkt encodes, whatever the edge's two end coordinates are.
C6_StoredGeometryFirst ==
    (key[1] = "edges" /\ HasStoredGeometry(G.edge[key[2]])) =>
        /\ pc # "failed"
        /\ g.exc = "None"
        /\ IF "Wkb" \in DOMAIN G.edge[key[2]]
           THEN ExportToWkb(LastWritten(2)) = G.edge[key[2]]["Wkb"]
           ELSE ExportToWkt(LastWritten(2)) = G.edge[key[2]]["Wkt"]

\* an edge whose Wkb holds a line of three vertices and whose Wkt holds the
\* straight line was written with the three vertices
C6_Witness ==
    /\ key[1] = "edges"
    /\ DOMAIN G.edge[key[2]] = {"Wkb", "Wkt"}
    /\ CreateGeometryFromWkt(G.edge[key[2]]["Wkt"]).pts = <<key[2][1], key[2][2]>>
    /\ Len(LastWritten(2).pts) = 3
    /\ LastWritten(2).pts # <<key[2][1], key[2][2]>>

\* a step of write_shp: its import failing, its data source created or not,
\* a node or an edge written, its return
WriteShpStep ==
    \/ pc \in {"write_nodes", "write_edges"}
    \/ pc' = "write_nodes"
    \/ pc' = "failed" /\ err' = WriteImportError
    \/ Len(fsops') > Len(fsops) /\ fsops'[Len(fsops')][1] = "CreateDataSource"

\* C8: no step of write_shp, on a normal or a failing path, changes the graph.
C8_GraphUnchanged == [][WriteShpStep => G' = G]_vars

\* write_shp returned after writing an edge from its Wkb entry
C8_Witness ==
    /\ pc = "written"
    /\ key[1] = "edges"
    /\ g.branch = "Wkb"
    /\ "Wkb" \in DOMAIN G.edge[key[2]]

\* C9 as stated: every node is written, a node whose mapping (empty or not)
\* has no Wkb and no Wkt entry as the point at its coordinate, and write_shp
\* does not fail on a node; the "nodes" layer ends with one feature per node.
C9_NodeWritten ==
    /\ key[1] = "nodes" =>
          /\ g.exc = "None"
          /\ pc # "failed"
          /\ ~HasStoredGeometry(G.node[key[2]]) => LastWritten(1) = Point(key[2])
    /\ pc \in {"write_edges", "written"} =>
          Len(outds[1].feats) = Cardinality(Nodes(G))

(* ------------------------------ round trip ----------------------------- *)

GeometryKeys == {"Wkb", "Wkt", "Json"}

WithoutGeometry(d) == [k \in DOMAIN d \ GeometryKeys |-> d[k]]

\* same nodes, edges and mappings, the geometry encodings of edges aside
SameGraph(a, b) ==
    /\ Nodes(a) = Nodes(b)
    /\ Edges(a) = Edges(b)
    /\ \A n \in Nodes(a) : a.node[n] = b.node[n]
    /\ \A e \in Edges(a) : WithoutGeometry(a.edge[e]) = WithoutGeometry(b.edge[e])

\* C1 as stated: for a graph G read from point features and two-vertex lines,
\* write_shp(G) raises nothing in its loops and read_shp of what it wrote
\* returns G again.
C1_RoundTrip ==
    plain =>
        /\ g.exc = "None"
        /\ pc = "read_back" => SameGraph(net, G)

====
